---- MODULE Spec2Model ----
(***************************************************************************)
(* A model of the persistent data engine of aura-id-api (src/database.py)  *)
(* and of the handlers of src/api_server.py that read it.                  *)
(*                                                                         *)
(* The store is one SQLite file.  Every `with get_db_cursor()` block opens *)
(* a connection of its own and commits when the block ends, so one block   *)
(* is one transaction and one atomic step of the model; a method that runs *)
(* several blocks (AirdropCard.reserve_card) is several steps, and other   *)
(* requests may run between them.                                          *)
(***************************************************************************)
EXTENDS Integers, Sequences, FiniteSets, TLC

\* ---------------------------------------------------------------- bounds
\* claim requests ever started when requests run concurrently (Spec)
MaxClaims == 2
\* claim requests ever started when they run one after another (SpecSeq)
MaxSeqClaims == 3
\* rows the airdrop_cards table ever holds
MaxRows == 2
\* cards created (Card.save of a new object) after set-up
MaxNewCards == 2
\* rows the collections table ever holds
MaxCollections == 2
\* calls of init_db() (process starts)
MaxInitDb == 2
\* calls of Collection.update_price() between two changes of the listings
MaxPriceCalls == 2
\* the latest value of CURRENT_TIMESTAMP (seconds since the first start)
MaxTime == 2
\* calls of User.save()
MaxUserSaves == 3
\* requests that load a card and save it with another access key
MaxEdits == 1
\* connections to the file ever opened by the operations observed
MaxConnections == 3
\* requests POST /api/check-airdrop
MaxChecks == 1
\* requests POST /api/check-collection
MaxCollectionChecks == 1

\* telegram ids of the users that claim: the k-th claim request is user k's,
\* so that no user claims twice (the precondition of a claim)
Users == 1..MaxSeqClaims
\* the user that created the cards and owns them before any claim
Creator == MaxSeqClaims + 1
\* ids of the cards rows present after set-up
CardIds == {1, 2}
\* ids of the airdrops rows
AirdropIds == {1, 2}

\* SQL NULL and Python None
None == 0
\* SQL NULL and Python None where the column or attribute holds text
NULL == "NULL"

\* access keys the generator may return to the creators of cards (a sample
\* of its outcomes; two creators may be handed the same one)
Keys == {"AAAA-AAAA-AAAA", "Z9Z9-Z9Z9-Z9Z9"}

VARIABLES
    cards,          \* table cards: id -> row (only the columns the engine moves)
    airdrops,       \* table airdrops: id -> row
    airdrop_cards,  \* table airdrop_cards: id (AUTOINCREMENT) -> row
    claims,         \* the claim requests started so far, in order of arrival
    choices,        \* what secrets.choice returns, call after call (indexes into chars)
    generated,      \* the keys generate_access_key() has returned
    schema,         \* the tables of the file: name -> set of column names
    indexes,        \* the names of the indexes of the file
    schema_migrations,  \* table schema_migrations: version -> applied_at
    collections,    \* table collections: id (AUTOINCREMENT) -> row
    init_db_calls,  \* the calls of init_db() so far: what each did
    trade_links,    \* table trade_links: id (AUTOINCREMENT) -> row
    collection_links,   \* table collection_links: id (AUTOINCREMENT) -> row
    update_price_calls, \* the calls of Collection.update_price() since the
                        \* trade links last changed: what each did
    users,          \* table users: id (AUTOINCREMENT) -> row
    users_seq,      \* the largest id the table users ever held (sqlite_sequence)
    saved_user,     \* the User object the last save() returned
    card_edits,     \* the requests that edit a card: the object each loaded
    connections,    \* the connections opened so far: who opened each, where
                    \* its operation is, and whether it has been closed
    airdrop_checks, \* the requests POST /api/check-airdrop: what each has
                    \* read so far, and its response
    collection_checks   \* the requests POST /api/check-collection, likewise

\* the state of the key generator
genVars == <<choices, generated>>

\* the database file outside the tables above, and the log of init_db
migVars == <<schema, indexes, schema_migrations, collections, init_db_calls>>

\* the listings, and the log of update_price
linkVars == <<trade_links, collection_links, update_price_calls>>

\* the users, and the object last saved
userVars == <<users, users_seq, saved_user>>

\* the requests in flight other than claims
handlerVars ==
    <<card_edits, connections, airdrop_checks, collection_checks>>

\* what a request against the tables of the airdrop claim leaves alone
nonClaimVars == <<genVars, migVars, linkVars, userVars, handlerVars>>

vars ==
    <<cards, airdrops, airdrop_cards, claims, genVars, migVars, linkVars,
      userVars, handlerVars>>

\* datetime.utcnow().isoformat() as read by claim request k: the instants of
\* different requests are different values (the program never orders them)
utcnow(k) == k

\* ------------------------------------------------------------ row objects
\* Card.from_row: the Card object built from a cards row
Card_from_row(c) ==
    [id |-> c, owner_id |-> cards[c].owner_id,
     access_key |-> cards[c].access_key,
     collection_id |-> cards[c].collection_id]

\* the value of `card` when Card.get_by_id found no row
NoCard ==
    [id |-> None, owner_id |-> None, access_key |-> NULL, collection_id |-> None]

\* Card.get_by_id
Card_get_by_id(c) == IF c \in DOMAIN cards THEN Card_from_row(c) ELSE NoCard

\* AirdropCard.from_row
AirdropCard_from_row(i) ==
    [id          |-> i,
     airdrop_id  |-> airdrop_cards[i].airdrop_id,
     card_id     |-> airdrop_cards[i].card_id,
     is_reserved |-> airdrop_cards[i].is_reserved,
     reserved_by |-> airdrop_cards[i].reserved_by,
     reserved_at |-> airdrop_cards[i].reserved_at]

\* the value of the row object when get_random_available_card returned None
NoAirdropCard ==
    [id |-> None, airdrop_id |-> None, card_id |-> None,
     is_reserved |-> FALSE, reserved_by |-> None, reserved_at |-> None]

\* AirdropCard.__init__: a fresh, unreserved pool row
AirdropCard_init(a, c) ==
    [airdrop_id |-> a, card_id |-> c,
     is_reserved |-> FALSE, reserved_by |-> None, reserved_at |-> None]

\* ------------------------------------------------------------ statements
\* AvailableRows with a fault: the WHERE clause without is_reserved = 0
AvailableRows_any_state(a) ==
    {i \in DOMAIN airdrop_cards : airdrop_cards[i].airdrop_id = a}

\* SELECT ac.* FROM airdrop_cards ac WHERE ac.airdrop_id = ? AND ac.is_reserved = 0
AvailableRows(a) ==
    {i \in DOMAIN airdrop_cards :
        airdrop_cards[i].airdrop_id = a /\ ~airdrop_cards[i].is_reserved}

\* UPDATE cards SET ..., owner_id = ?, ..., collection_id = ?,
\* access_key = ?, ... WHERE id = ?  (Card.save, id set)
Card_update(card) ==
    IF card.id \in DOMAIN cards
    THEN [cards EXCEPT ![card.id].owner_id = card.owner_id,
                       ![card.id].collection_id = card.collection_id,
                       ![card.id].access_key = card.access_key]
    ELSE cards

\* AirdropCard_update with a fault: the UPDATE leaves is_reserved as stored
AirdropCard_update_keeps_flag(self) ==
    IF self.id \in DOMAIN airdrop_cards
    THEN [airdrop_cards EXCEPT ![self.id].reserved_by = self.reserved_by,
                               ![self.id].reserved_at = self.reserved_at]
    ELSE airdrop_cards

\* UPDATE airdrop_cards SET is_reserved = ?, reserved_by = ?, reserved_at = ?
\* WHERE id = ?  (AirdropCard.save, id set)
AirdropCard_update(self) ==
    IF self.id \in DOMAIN airdrop_cards
    THEN [airdrop_cards EXCEPT ![self.id].is_reserved = self.is_reserved,
                               ![self.id].reserved_by = self.reserved_by,
                               ![self.id].reserved_at = self.reserved_at]
    ELSE airdrop_cards

\* INSERT INTO airdrop_cards: the table has no UNIQUE constraint on
\* (airdrop_id, card_id), so neither INSERT nor INSERT OR IGNORE meets a
\* conflict: the row is appended under the next AUTOINCREMENT id
AirdropCard_insert(a, c) == Append(airdrop_cards, AirdropCard_init(a, c))

\* ------------------------------------------------------------- queries
\* SELECT COUNT(*) FROM airdrop_cards WHERE airdrop_id = ?: the rows counted
\* by Airdrop.get_total_cards
PoolOf(a) == {i \in DOMAIN airdrop_cards : airdrop_cards[i].airdrop_id = a}

\* User.get_cards: SELECT * FROM cards WHERE owner_id = ? (the telegram id)
User_get_cards(u) == {c \in DOMAIN cards : cards[c].owner_id = u}

\* check_airdrop: SELECT c.* FROM cards c JOIN airdrop_cards ac
\* ON c.id = ac.card_id WHERE ac.airdrop_id = ?
airdrop_cards_of(a) ==
    {c \in DOMAIN cards : \E i \in PoolOf(a) : airdrop_cards[i].card_id = c}

\* check_airdrop: the user's cards that are cards of the airdrop
user_airdrop_cards(u, a) ==
    {c \in User_get_cards(u) : c \in airdrop_cards_of(a)}

\* check_airdrop's answer "has_airdrop_card"
has_airdrop_card(u, a) == Cardinality(user_airdrop_cards(u, a)) > 0

\* check_airdrop's answer "can_claim_more"
can_claim_more(u, a) ==
    Cardinality(user_airdrop_cards(u, a)) = 0 /\ airdrops[a].is_active


\* ------------------------------------------------- generate_access_key
\* A string is the sequence of its characters.
\* string.ascii_uppercase
ascii_uppercase ==
    <<"A", "B", "C", "D", "E", "F", "G", "H", "I", "J", "K", "L", "M",
      "N", "O", "P", "Q", "R", "S", "T", "U", "V", "W", "X", "Y", "Z">>

\* string.digits
digits == <<"0", "1", "2", "3", "4", "5", "6", "7", "8", "9">>

\* chars = string.ascii_uppercase + string.digits
chars == ascii_uppercase \o digits

\* for _ in range(3): the parts of a key
NumParts == 3
\* for _ in range(4): the characters of a part
PartLen == 4

\* the outcomes of secrets.choice(chars) that are tried, as indexes into
\* chars: its first letter, its last letter and its last digit
ChoiceSample == {1, Len(ascii_uppercase), Len(chars)}

\* str.join with a fault: the parts are concatenated without the separator
RECURSIVE join_without_separator(_, _)
join_without_separator(sep, parts) ==
    IF parts = <<>> THEN <<>>
    ELSE Head(parts) \o join_without_separator(sep, Tail(parts))

\* sep.join(parts)
RECURSIVE join(_, _)
join(sep, parts) ==
    IF parts = <<>> THEN <<>>
    ELSE IF Len(parts) = 1 THEN Head(parts)
    ELSE Head(parts) \o sep \o join(sep, Tail(parts))

\* part = ''.join(secrets.choice(chars) for _ in range(4)), for the p-th
\* part, when secrets.choice returns chars[rnd[1]], chars[rnd[2]], ...
part(rnd, p) == [i \in 1..PartLen |-> chars[rnd[(p - 1) * PartLen + i]]]

\* generate_access_key() when secrets.choice returns chars[rnd[1]], ...
generate_access_key(rnd) ==
    join(<<"-">>, [p \in 1..NumParts |-> part(rnd, p)])

\* ------------------------------------------------------------ migrations
\* A version is a string, the sequence of its characters
Version(major, minor, patch) == <<major, ".", minor, ".", patch>>

\* ord(ch) for the characters of a version
ord(ch) ==
    IF ch = "." THEN 46
    ELSE 47 + (CHOOSE i \in 1..Len(digits) : digits[i] = ch)

\* a < b for two strings, as Python's str.__lt__ and SQLite's BINARY
\* collation order them: character by character, a proper prefix first
RECURSIVE str_lt(_, _)
str_lt(a, b) ==
    IF b = <<>> THEN FALSE
    ELSE IF a = <<>> THEN TRUE
    ELSE IF ord(Head(a)) # ord(Head(b)) THEN ord(Head(a)) < ord(Head(b))
    ELSE str_lt(Tail(a), Tail(b))

\* The statements of the migration steps.  A statement names what it does
\* (op), the table and the columns it is about.
\* CREATE TABLE IF NOT EXISTS t (columns)
CreateTable(t, cols) ==
    [op |-> "CREATE TABLE IF NOT EXISTS", table |-> t, columns |-> cols]

\* PRAGMA table_info(t); if c not in columns: ALTER TABLE t ADD COLUMN c
AddColumn(t, c) ==
    [op |-> "ADD COLUMN if missing", table |-> t, columns |-> {c}]

\* CREATE UNIQUE INDEX IF NOT EXISTS idx_collections_link_id ON collections(link_id)
CreateLinkIdIndex ==
    [op |-> "CREATE UNIQUE INDEX IF NOT EXISTS", table |-> "collections",
     columns |-> {"link_id"}]

\* SELECT id FROM collections WHERE link_id IS NULL OR link_id = ''; then,
\* row by row, UPDATE collections SET link_id = uuid4().hex[:16]
BackfillLinkId ==
    [op |-> "UPDATE link_id", table |-> "collections", columns |-> {"link_id"}]

\* UPDATE cards SET star_price = 1 WHERE star_price IS NULL
DefaultStarPrice ==
    [op |-> "UPDATE star_price", table |-> "cards", columns |-> {"star_price"}]

migrate_to_v1_0_0 ==
    << CreateTable("users",
           {"id", "telegram_id", "username", "first_name", "is_admin",
            "created_at"}),
       CreateTable("collections",
           {"id", "name", "description", "author_id", "star_price",
            "is_published", "link_id", "created_at"}),
       CreateTable("cards",
           {"id", "card_number", "name", "owner_id", "registration_date",
            "expires", "engraving_color", "has_background", "collection_id",
            "created_at"}),
       CreateTable("trade_links",
           {"id", "link_id", "card_id", "seller_id", "price", "is_gift",
            "created_at", "is_active"}) >>

migrate_to_v1_1_0 ==
    << CreateTable("collection_links",
           {"id", "link_id", "collection_id", "seller_id", "created_at",
            "is_active"}),
       AddColumn("collections", "description"),
       AddColumn("collections", "is_published") >>

migrate_to_v1_2_0 == << AddColumn("cards", "access_key") >>

migrate_to_v1_3_0 ==
    << AddColumn("collections", "reservation_status"),
       AddColumn("collections", "reserved_by"),
       AddColumn("collections", "reserved_at") >>

migrate_to_v1_4_0 ==
    << AddColumn("collections", "link_id"),
       CreateLinkIdIndex,
       BackfillLinkId >>

migrate_to_v1_5_0 ==
    << AddColumn("cards", "star_price"),
       DefaultStarPrice >>

migrate_to_v1_6_0 ==
    << CreateTable("airdrops",
           {"id", "name", "description", "creator_id", "message_id",
            "chat_id", "is_active", "created_at"}),
       CreateTable("airdrop_cards",
           {"id", "airdrop_id", "card_id", "is_reserved", "reserved_by",
            "reserved_at"}) >>

migrate_to_v1_7_0 == << AddColumn("airdrops", "cover_image") >>

\* the steps in the order init_db tests them, each with the version its
\* test compares current_version with
MigrationSteps ==
    << [version |-> Version("1", "0", "0"), statements |-> migrate_to_v1_0_0],
       [version |-> Version("1", "1", "0"), statements |-> migrate_to_v1_1_0],
       [version |-> Version("1", "2", "0"), statements |-> migrate_to_v1_2_0],
       [version |-> Version("1", "3", "0"), statements |-> migrate_to_v1_3_0],
       [version |-> Version("1", "4", "0"), statements |-> migrate_to_v1_4_0],
       [version |-> Version("1", "5", "0"), statements |-> migrate_to_v1_5_0],
       [version |-> Version("1", "6", "0"), statements |-> migrate_to_v1_6_0],
       [version |-> Version("1", "7", "0"), statements |-> migrate_to_v1_7_0] >>

\* The database file as a value: its tables with their columns (schema), its
\* indexes, the rows of schema_migrations (version -> applied_at) and the
\* rows of collections.
\* a file that does not exist yet: sqlite3.connect creates it empty
EmptyDb ==
    [schema |-> <<>>, indexes |-> {}, schema_migrations |-> <<>>,
     collections |-> <<>>]

\* A connection at work: the file as the connection sees it (db), the file
\* as committed (committed), whether the sqlite3 module has opened a
\* transaction (it does so before the first INSERT, UPDATE, DELETE or
\* REPLACE, and a statement run before that is committed at once), whether
\* a statement has raised, the steps started, and what uuid.uuid4() is
\* going to return.
get_db_connection(db, uuid4) ==
    [db |-> db, committed |-> db, in_transaction |-> FALSE, raised |-> FALSE,
     steps |-> <<>>, uuid4 |-> uuid4]

\* a statement that defines data (CREATE, ALTER) has run
executed_ddl(m, db) ==
    [m EXCEPT !.db = db,
              !.committed = IF m.in_transaction THEN @ ELSE db]

\* a statement that writes rows has run
executed_dml(m, db) == [m EXCEPT !.db = db, !.in_transaction = TRUE]

\* a statement raises sqlite3.Error
raises(m) == [m EXCEPT !.raised = TRUE]

\* two rows of collections hold the same link_id that is not NULL (NULLs are
\* distinct for a UNIQUE index, empty strings are not)
DuplicateLinkId(rows) ==
    \E i, j \in DOMAIN rows :
        i # j /\ rows[i].link_id # NULL /\ rows[i].link_id = rows[j].link_id

\* the ids of the collections WHERE link_id IS NULL OR link_id = '', in the
\* order fetchall() returns them
collections_without_link(rows) ==
    SelectSeq([i \in 1..Len(rows) |-> i],
              LAMBDA i : rows[i].link_id = NULL \/ rows[i].link_id = "")

\* the for loop of migrate_to_v1_4_0: the k-th row without a link gets the
\* k-th value of uuid4().hex[:16]
backfilled(rows, uuid4) ==
    LET todo == collections_without_link(rows)
    IN  [i \in DOMAIN rows |->
            IF \E k \in DOMAIN todo : todo[k] = i
            THEN [rows[i] EXCEPT !.link_id =
                     uuid4[CHOOSE k \in DOMAIN todo : todo[k] = i]]
            ELSE rows[i]]

\* cursor.execute(statement) on connection m
execute(m, st) ==
    LET db == m.db
        present == st.table \in DOMAIN db.schema
    IN
    IF m.raised THEN m
    ELSE IF st.op = "CREATE TABLE IF NOT EXISTS" THEN
        IF present THEN m
        ELSE executed_ddl(m,
                [db EXCEPT !.schema = @ @@ (st.table :> st.columns)])
    ELSE IF st.op = "ADD COLUMN if missing" THEN
        IF ~present THEN raises(m)
        ELSE IF st.columns \subseteq db.schema[st.table] THEN m
        ELSE executed_ddl(m,
                [db EXCEPT !.schema[st.table] = @ \cup st.columns])
    ELSE IF st.op = "CREATE UNIQUE INDEX IF NOT EXISTS" THEN
        IF "idx_collections_link_id" \in db.indexes THEN m
        ELSE IF ~present THEN raises(m)
        ELSE IF ~(st.columns \subseteq db.schema[st.table]) THEN raises(m)
        ELSE IF DuplicateLinkId(db.collections) THEN raises(m)
        ELSE executed_ddl(m,
                [db EXCEPT !.indexes = @ \cup {"idx_collections_link_id"}])
    ELSE IF st.op = "UPDATE link_id" THEN
        IF ~present THEN raises(m)
        ELSE IF collections_without_link(db.collections) = <<>> THEN m
        ELSE LET rows == backfilled(db.collections, m.uuid4)
             IN  IF "idx_collections_link_id" \in db.indexes
                        /\ DuplicateLinkId(rows)
                 THEN raises(executed_dml(m, db))
                 ELSE executed_dml(m, [db EXCEPT !.collections = rows])
    ELSE \* "UPDATE star_price"
        IF ~present THEN raises(m)
        ELSE executed_dml(m, db)

\* the statements of a step, one after another
RECURSIVE execute_all(_, _)
execute_all(m, statements) ==
    IF statements = <<>> THEN m
    ELSE execute_all(execute(m, Head(statements)), Tail(statements))

\* if current_version < "x.y.z": migrate_to_vx_y_z(cursor), for the steps
\* in order; a step is not reached once a statement has raised
RECURSIVE migrate(_, _, _)
migrate(m, current_version, steps) ==
    IF steps = <<>> THEN m
    ELSE LET step == Head(steps)
             after ==
                IF ~m.raised /\ str_lt(current_version, step.version)
                THEN execute_all([m EXCEPT !.steps = Append(@, step.version)],
                                 step.statements)
                ELSE m
         IN  migrate(after, current_version, Tail(steps))

\* SELECT version FROM schema_migrations ORDER BY version DESC LIMIT 1, and
\* "0.0.0" without a row
current_version(db) ==
    IF DOMAIN db.schema_migrations = {} THEN Version("0", "0", "0")
    ELSE CHOOSE v \in DOMAIN db.schema_migrations :
            \A w \in DOMAIN db.schema_migrations : w = v \/ str_lt(w, v)

\* record_version with a fault: the marker is written and committed whether
\* or not a step has raised
record_version_despite_raise(m, CURRENT_TIMESTAMP) ==
    [m EXCEPT !.db.schema_migrations =
                  (Version("1", "7", "0") :> CURRENT_TIMESTAMP) @@ @,
              !.committed.schema_migrations =
                  (Version("1", "7", "0") :> CURRENT_TIMESTAMP) @@ @]

\* INSERT OR REPLACE INTO schema_migrations (version) VALUES ('1.7.0'):
\* the row of 1.7.0, if any, is replaced, and applied_at of the new row is
\* its default, CURRENT_TIMESTAMP
record_version(m, CURRENT_TIMESTAMP) ==
    IF m.raised THEN m
    ELSE executed_dml(m,
            [m.db EXCEPT !.schema_migrations =
                (Version("1", "7", "0") :> CURRENT_TIMESTAMP) @@ @])

\* init_db() on the file db: the connection when the with block is left
\* (conn.commit() if nothing raised, conn.rollback() otherwise)
init_db(db, CURRENT_TIMESTAMP, uuid4) ==
    LET opened == execute(get_db_connection(db, uuid4),
                          CreateTable("schema_migrations",
                                      {"version", "applied_at"}))
        migrated == migrate(opened, current_version(opened.db), MigrationSteps)
        m == record_version(migrated, CURRENT_TIMESTAMP)
    IN  [m EXCEPT !.committed = IF m.raised THEN @ ELSE m.db]

\* ------------------------------------------------------------------ Init
\* the tables after set-up: the cards exist, the pools are empty
InitStore ==
    /\ cards = [c \in CardIds |->
                    [owner_id |-> Creator, access_key |-> NULL,
                     collection_id |-> None]]
    /\ airdrops = [a \in AirdropIds |-> [is_active |-> TRUE]]
    /\ airdrop_cards = <<>>
    /\ claims = <<>>

\* generate_access_key() is not being called
GenIdle ==
    /\ choices = <<>>
    /\ generated = <<>>

\* the file after init_db() has run on a file that did not exist
MigDone ==
    LET db == init_db(EmptyDb, 1, <<>>).committed
    IN  /\ schema = db.schema
        /\ indexes = db.indexes
        /\ schema_migrations = db.schema_migrations
        /\ collections = db.collections
        /\ init_db_calls = <<>>

\* no listing has been created
NoLinks ==
    /\ trade_links = <<>>
    /\ collection_links = <<>>
    /\ update_price_calls = <<>>

\* User.__init__: the object before it is saved
User_init(telegram_id, username, first_name, is_admin, now) ==
    [telegram_id |-> telegram_id, username |-> username,
     first_name |-> first_name, is_admin |-> is_admin, created_at |-> now,
     id |-> None]

\* the value of saved_user before any save()
NoUser == User_init(None, NULL, NULL, FALSE, None)

\* no user has been saved
NoUsers ==
    /\ users = <<>>
    /\ users_seq = 0
    /\ saved_user = NoUser

\* no other request is being served
NoHandlers ==
    /\ card_edits = <<>>
    /\ connections = <<>>
    /\ airdrop_checks = <<>>
    /\ collection_checks = <<>>

Init ==
    /\ InitStore
    /\ GenIdle
    /\ MigDone
    /\ NoLinks
    /\ NoUsers
    /\ NoHandlers

\* --------------------------------------------------------------- actions
\* Airdrop.add_card(card_id)
add_card(a, c) ==
    /\ Len(airdrop_cards) < MaxRows
    /\ airdrop_cards' = AirdropCard_insert(a, c)
    /\ UNCHANGED <<cards, airdrops, claims, nonClaimVars>>

\* AirdropCard(airdrop_id, card_id).save(): the object is new (id is None)
AirdropCard_save_new(a, c) ==
    /\ Len(airdrop_cards) < MaxRows
    /\ airdrop_cards' = AirdropCard_insert(a, c)
    /\ UNCHANGED <<cards, airdrops, claims, nonClaimVars>>

\* Airdrop.deactivate(): is_active = False, then save() writes it
Airdrop_deactivate(a) ==
    /\ airdrops' = [airdrops EXCEPT ![a].is_active = FALSE]
    /\ UNCHANGED <<cards, airdrop_cards, claims, nonClaimVars>>

\* Card.delete()
Card_delete(c) ==
    /\ c \in DOMAIN cards
    /\ cards' = [d \in DOMAIN cards \ {c} |-> cards[d]]
    /\ UNCHANGED <<airdrops, airdrop_cards, claims, nonClaimVars>>

\* the owner of the card of pool row i as stored, None without the card
OwnerOfRow(i) ==
    IF airdrop_cards[i].card_id \in DOMAIN cards
    THEN cards[airdrop_cards[i].card_id].owner_id
    ELSE None

\* A claim request holds its arguments (user_id, airdrop_id), its place in
\* the code (pc), the objects it has loaded (self, card) and its outcome
\* (result).  One more field records, for the properties only, what was
\* stored when it started: the owner of the selected row's card
\* (owner_before).
ClaimRequest(u, a, pc, self, res, before) ==
    [user_id |-> u, airdrop_id |-> a, pc |-> pc, self |-> self,
     card |-> NoCard, result |-> res,
     owner_before |-> before]

\* A claim by user u against airdrop a starts:
\* AirdropCard.get_random_available_card(a), ORDER BY RANDOM() LIMIT 1
get_random_available_card(u, a) ==
    /\ IF AvailableRows(a) = {}
       THEN claims' = Append(claims,
                ClaimRequest(u, a, "done", NoAirdropCard,
                             "NoCardsAvailable", None))
       ELSE \E i \in AvailableRows(a) :
                claims' = Append(claims,
                    ClaimRequest(u, a, "selected", AirdropCard_from_row(i),
                                 "pending", OwnerOfRow(i)))
    /\ UNCHANGED <<cards, airdrops, airdrop_cards, nonClaimVars>>

\* reserve_card(user_id), first part: the object's fields are set and
\* Card.get_by_id(self.card_id) reads the card in a transaction of its own
reserve_card_get_card(k) ==
    /\ claims[k].pc = "selected"
    /\ LET self == [claims[k].self EXCEPT !.is_reserved = TRUE,
                                          !.reserved_by = claims[k].user_id,
                                          !.reserved_at = utcnow(k)]
           card == Card_get_by_id(self.card_id)
       IN  claims' = [claims EXCEPT
                ![k].self = self,
                ![k].card = IF card = NoCard THEN NoCard
                            ELSE [card EXCEPT !.owner_id = claims[k].user_id],
                ![k].pc = IF card = NoCard THEN "card_saved" ELSE "loaded"]
    /\ UNCHANGED <<cards, airdrops, airdrop_cards, nonClaimVars>>

\* reserve_card, second part: card.save() commits the new owner
reserve_card_card_save(k) ==
    /\ claims[k].pc = "loaded"
    /\ cards' = Card_update(claims[k].card)
    /\ claims' = [claims EXCEPT ![k].pc = "card_saved"]
    /\ UNCHANGED <<airdrops, airdrop_cards, nonClaimVars>>

\* reserve_card, last part: self.save() commits the reservation, and the
\* card (or None) is returned
reserve_card_save(k) ==
    /\ claims[k].pc = "card_saved"
    /\ airdrop_cards' = AirdropCard_update(claims[k].self)
    /\ claims' = [claims EXCEPT
            ![k].pc = "done",
            ![k].result = IF claims[k].card = NoCard THEN "None" ELSE "Card"]
    /\ UNCHANGED <<cards, airdrops, nonClaimVars>>

\* The request is abandoned, or a statement raises, between two transactions
\* of the claim: what is committed stays, nothing more is written
abandon(k) ==
    /\ claims[k].pc \in {"selected", "loaded", "card_saved"}
    /\ claims' = [claims EXCEPT ![k].pc = "abandoned"]
    /\ UNCHANGED <<cards, airdrops, airdrop_cards, nonClaimVars>>

\* the user whose claim request arrives next
NextUser == Len(claims) + 1

\* no claim request is between two of its transactions
NoClaimRunning == \A k \in DOMAIN claims : claims[k].pc \in {"done", "abandoned"}

\* Requests run concurrently: any transaction of any request may come next
Next ==
    \/ \E a \in AirdropIds, c \in DOMAIN cards : add_card(a, c)
    \/ \E a \in AirdropIds, c \in DOMAIN cards : AirdropCard_save_new(a, c)
    \/ \E a \in AirdropIds :
            Len(claims) < MaxClaims /\ get_random_available_card(NextUser, a)
    \/ \E k \in DOMAIN claims : reserve_card_get_card(k)
    \/ \E k \in DOMAIN claims : reserve_card_card_save(k)
    \/ \E k \in DOMAIN claims : reserve_card_save(k)
    \/ \E k \in DOMAIN claims : abandon(k)

Spec == Init /\ [][Next]_vars

\* The pools are filled, then claims are served one after another (a claim
\* starts when the one before has returned); an airdrop may be deactivated
\* and a card deleted at any time
NextSeq ==
    \/ \E a \in AirdropIds, c \in DOMAIN cards : claims = <<>> /\ add_card(a, c)
    \/ \E a \in AirdropIds : Airdrop_deactivate(a)
    \/ \E c \in CardIds : Card_delete(c)
    \/ \E a \in AirdropIds :
            /\ Len(claims) < MaxSeqClaims
            /\ NoClaimRunning
            /\ get_random_available_card(NextUser, a)
    \/ \E k \in DOMAIN claims : reserve_card_get_card(k)
    \/ \E k \in DOMAIN claims : reserve_card_card_save(k)
    \/ \E k \in DOMAIN claims : reserve_card_save(k)

SpecSeq == Init /\ [][NextSeq]_vars

\* ------------------------------------------------------- card creation
\* lastrowid of an INSERT into cards: no row is deleted while cards are
\* created, so the next AUTOINCREMENT id is the number of rows plus one
cards_lastrowid == Cardinality(DOMAIN cards) + 1

\* INSERT INTO cards (..., owner_id, ..., collection_id, ..., access_key,
\* ...), for a card outside any collection: the column
\* access_key is plain TEXT (ALTER TABLE cards ADD COLUMN access_key TEXT),
\* without a UNIQUE constraint, so the statement meets no conflict
Card_insert(owner, key) ==
    cards @@ (cards_lastrowid :>
                [owner_id |-> owner, access_key |-> key, collection_id |-> None])

\* Card(..., owner_id, access_key = key).save(): the object is new (id is
\* None); key is what the creator got from generate_access_key(), or None
\* (the default of Card.__init__)
Card_save_new(owner, key) ==
    /\ Cardinality(DOMAIN cards) < Cardinality(CardIds) + MaxNewCards
    /\ cards' = Card_insert(owner, key)
    /\ UNCHANGED <<airdrops, airdrop_cards, claims, nonClaimVars>>

\* Cards are created by concurrent requests: each creation is one
\* transaction, and they commit in any order
NextKeys ==
    \E owner \in Users \cup {Creator}, key \in Keys \cup {NULL} :
        Card_save_new(owner, key)

SpecKeys == Init /\ [][NextKeys]_vars

\* ------------------------------------------- calls of the key generator
\* A call of generate_access_key() is about to run: the random source will
\* answer its NumParts * PartLen draws with any of the sampled outcomes
InitGen ==
    /\ InitStore
    /\ NoUsers
    /\ NoHandlers
    /\ MigDone
    /\ NoLinks
    /\ choices \in [1..(NumParts * PartLen) -> ChoiceSample]
    /\ generated = <<>>

\* the call returns its key
generate_access_key_returns ==
    /\ generated = <<>>
    /\ generated' = <<generate_access_key(choices)>>
    /\ UNCHANGED <<cards, airdrops, airdrop_cards, claims, userVars,
                   handlerVars, choices, migVars,
                   linkVars>>

NextGen == generate_access_key_returns

SpecGen == InitGen /\ [][NextGen]_vars

\* ------------------------------------------------------ process starts
\* the database file as the tables hold it
Db ==
    [schema |-> schema, indexes |-> indexes,
     schema_migrations |-> schema_migrations, collections |-> collections]

\* values of uuid4().hex[:16]
LinkIds == {"a1a1a1a1a1a1a1a1", "b2b2b2b2b2b2b2b2", "c3c3c3c3c3c3c3c3",
            "d4d4d4d4d4d4d4d4"}

\* uuid4() does not return a value twice, nor one that is stored: the n
\* values it returns to a request on the file db
uuid4_outcomes(db, n) ==
    {u \in [1..n -> LinkIds] :
        /\ \A i, j \in 1..n : i # j => u[i] # u[j]
        /\ \A i \in 1..n, r \in DOMAIN db.collections :
              db.collections[r].link_id # u[i]}

\* the statements a call of init_db() on the file db runs, in order
RECURSIVE statements_of(_)
statements_of(steps) ==
    IF steps = <<>> THEN <<>>
    ELSE Head(steps).statements \o statements_of(Tail(steps))

init_db_statements(db) ==
    <<CreateTable("schema_migrations", {"version", "applied_at"})>>
    \o statements_of(SelectSeq(MigrationSteps,
            LAMBDA step : str_lt(current_version(db), step.version)))

\* the collections table of a release older than the steps 1.1.0 and 1.4.0,
\* which add these columns when they are missing
LegacyCollectionsColumns ==
    {"id", "name", "author_id", "star_price", "created_at"}

\* The file a release at version v left (v = "0.0.0": no file).  Its tables
\* were created by the step 1.0.0, or its collections table by an older
\* release (legacy); link_ids are the link_id values of its collections as
\* they were before the step 1.4.0; the steps up to v have run on it, and
\* its marker is v.
StoreAtVersion(v, legacy, link_ids) ==
    IF v = Version("0", "0", "0") THEN get_db_connection(EmptyDb, <<>>)
    ELSE
    LET created ==
            execute_all(get_db_connection(EmptyDb, <<>>),
                (IF legacy
                 THEN <<CreateTable("collections", LegacyCollectionsColumns)>>
                 ELSE <<>>) \o migrate_to_v1_0_0)
        rows == [i \in DOMAIN link_ids |->
                    [link_id |-> link_ids[i], star_price |-> 1]]
        filled == get_db_connection(
                    [created.db EXCEPT !.collections = rows],
                    CHOOSE u \in uuid4_outcomes([created.db EXCEPT !.collections = rows],
                                                Len(link_ids)) : TRUE)
        m == migrate(filled, Version("1", "0", "0"),
                     SelectSeq(MigrationSteps,
                               LAMBDA step : ~str_lt(v, step.version)))
    IN  [m EXCEPT !.db.schema_migrations = (v :> 1),
                  !.db.schema = @ @@ ("schema_migrations" :> {"version", "applied_at"})]

\* the link_id values of the rows of collections before the step 1.4.0:
\* NULL, the empty string, or a value of uuid4 (no value twice)
LegacyLinkIds(legacy) ==
    UNION {{l \in [1..n -> IF legacy THEN {NULL}
                            ELSE {NULL, "", "d4d4d4d4d4d4d4d4"}] :
                \A i, j \in 1..n :
                    (i # j /\ l[i] = l[j]) => l[i] \in {NULL, ""}}
           : n \in 0..MaxCollections}

\* The file when the process starts: the file of a release at any version,
\* or that file after a start that ran the first k statements of init_db()
\* and was killed (what it had committed stays).
InitMig ==
    /\ InitStore
    /\ NoUsers
    /\ NoHandlers
    /\ GenIdle
    /\ NoLinks
    /\ init_db_calls = <<>>
    /\ \E step \in {0} \cup DOMAIN MigrationSteps, legacy \in BOOLEAN :
       \E link_ids \in LegacyLinkIds(legacy) :
       \E release \in {StoreAtVersion(
                IF step = 0 THEN Version("0", "0", "0")
                ELSE MigrationSteps[step].version, legacy, link_ids)} :
          /\ ~release.raised
          /\ step = 0 => (~legacy /\ link_ids = <<>>)
          /\ \E statements \in {init_db_statements(release.db)} :
             \E uuid4 \in {CHOOSE u \in uuid4_outcomes(release.db,
                    Len(collections_without_link(release.db.collections))) : TRUE} :
             \E k \in 0..Len(statements) :
             \E killed \in {execute_all(get_db_connection(release.db, uuid4),
                                        SubSeq(statements, 1, k)).committed} :
                /\ schema = killed.schema
                /\ indexes = killed.indexes
                /\ schema_migrations = killed.schema_migrations
                /\ collections = killed.collections

\* the process starts: init_db() runs at time now
init_db_call(now, uuid4) ==
    /\ Len(init_db_calls) < MaxInitDb
    /\ \A v \in DOMAIN schema_migrations : schema_migrations[v] <= now
    /\ \E m \in {init_db(Db, now, uuid4)} :
           /\ schema' = m.committed.schema
           /\ indexes' = m.committed.indexes
           /\ schema_migrations' = m.committed.schema_migrations
           /\ collections' = m.committed.collections
           /\ init_db_calls' = Append(init_db_calls,
                    [version |-> current_version(Db), steps |-> m.steps,
                     raised |-> m.raised])
    /\ UNCHANGED <<cards, airdrops, airdrop_cards, claims, userVars,
                   handlerVars, genVars, linkVars>>

\* Collection.__init__: link_id = link_id or self._generate_link_id(), and
\* star_price = 1 unless given
Collection_init(link_id, generated_link_id) ==
    [link_id |-> IF link_id = NULL \/ link_id = "" THEN generated_link_id
                 ELSE link_id,
     star_price |-> 1]

\* Collection.save() of the object self on the file db: the columns
\* description, is_published and link_id are added if missing, then the row
\* is inserted; the connection when the with block is left
Collection_save_on(db, self) ==
    LET altered == execute_all(get_db_connection(db, <<>>),
                       << AddColumn("collections", "description"),
                          AddColumn("collections", "is_published"),
                          AddColumn("collections", "link_id") >>)
        rows == Append(altered.db.collections, self)
        m == IF altered.raised THEN altered
             ELSE IF "idx_collections_link_id" \in altered.db.indexes
                        /\ DuplicateLinkId(rows)
             THEN raises(executed_dml(altered, altered.db))
             ELSE executed_dml(altered, [altered.db EXCEPT !.collections = rows])
    IN  [m EXCEPT !.committed = IF m.raised THEN @ ELSE m.db]

\* Collection(name, author_id).save(): a collection is created
Collection_save(generated_link_id) ==
    /\ Len(collections) < MaxCollections
    /\ \E m \in {Collection_save_on(Db, Collection_init(NULL, generated_link_id))} :
           /\ schema' = m.committed.schema
           /\ indexes' = m.committed.indexes
           /\ schema_migrations' = m.committed.schema_migrations
           /\ collections' = m.committed.collections
    /\ UNCHANGED <<cards, airdrops, airdrop_cards, claims, userVars,
                   handlerVars, genVars,
                   init_db_calls, linkVars>>

\* The process starts, any number of times, and collections are created
\* once it has started
NextMig ==
    \/ \E now \in 1..MaxTime :
       \E uuid4 \in uuid4_outcomes(Db, Len(collections_without_link(collections))) :
           init_db_call(now, uuid4)
    \/ \E u \in uuid4_outcomes(Db, 1) :
           init_db_calls # <<>> /\ Collection_save(u[1])

SpecMig == InitMig /\ [][NextMig]_vars

\* -------------------------------------------------------------- listings
\* link ids the sellers' requests come with (trade_links.link_id and
\* collection_links.link_id are UNIQUE NOT NULL)
TradeLinkIds == {"t1", "t2"}

CollectionLinkIds == {"k1", "k2"}

\* prices of listings
Prices == {10, 50}

\* TradeLink.__init__: a new listing is active
TradeLink_init(link_id, card_id, price, is_gift, now) ==
    [link_id |-> link_id, card_id |-> card_id, price |-> price,
     is_gift |-> is_gift, created_at |-> now, is_active |-> TRUE]

\* TradeLink.from_row: the object loaded by get_by_link_id and
\* get_active_links
TradeLink_from_row(i) == trade_links[i]

\* TradeLink_insert with a fault: INSERT ... ON CONFLICT(link_id) DO UPDATE,
\* the row of the link_id is written in place
TradeLink_insert_or_update(self) ==
    IF \E i \in DOMAIN trade_links : trade_links[i].link_id = self.link_id
    THEN [i \in DOMAIN trade_links |->
            IF trade_links[i].link_id = self.link_id THEN self
            ELSE trade_links[i]]
    ELSE Append(trade_links, self)

\* INSERT INTO trade_links (link_id, ..., is_active): a link_id that is
\* stored already violates UNIQUE, the statement raises and nothing is
\* written
TradeLink_insert(self) ==
    IF \E i \in DOMAIN trade_links : trade_links[i].link_id = self.link_id
    THEN trade_links
    ELSE Append(trade_links, self)

\* TradeLink.save() of the object self
TradeLink_save(self) ==
    /\ trade_links' = TradeLink_insert(self)
    /\ update_price_calls' = <<>>
    /\ UNCHANGED <<cards, airdrops, airdrop_cards, claims, userVars,
                   handlerVars, genVars, migVars,
                   collection_links>>

\* TradeLink.deactivate() of the object loaded from row i:
\* UPDATE trade_links SET is_active = 0 WHERE id = ?
TradeLink_deactivate(i) ==
    /\ trade_links' = [trade_links EXCEPT ![i].is_active = FALSE]
    /\ update_price_calls' = <<>>
    /\ UNCHANGED <<cards, airdrops, airdrop_cards, claims, userVars,
                   handlerVars, genVars, migVars,
                   collection_links>>

\* CollectionLink.__init__
CollectionLink_init(link_id, collection_id) ==
    [link_id |-> link_id, collection_id |-> collection_id, is_active |-> TRUE]

\* CollectionLink.from_row
CollectionLink_from_row(i) == collection_links[i]

\* INSERT INTO collection_links (link_id, ..., is_active)
CollectionLink_insert(self) ==
    IF \E i \in DOMAIN collection_links :
            collection_links[i].link_id = self.link_id
    THEN collection_links
    ELSE Append(collection_links, self)

\* CollectionLink.save() of the object self
CollectionLink_save(self) ==
    /\ collection_links' = CollectionLink_insert(self)
    /\ UNCHANGED <<cards, airdrops, airdrop_cards, claims, userVars,
                   handlerVars, genVars, migVars,
                   trade_links, update_price_calls>>

\* CollectionLink.deactivate() of the object loaded from row i
CollectionLink_deactivate(i) ==
    /\ collection_links' = [collection_links EXCEPT ![i].is_active = FALSE]
    /\ UNCHANGED <<cards, airdrops, airdrop_cards, claims, userVars,
                   handlerVars, genVars, migVars,
                   trade_links, update_price_calls>>

\* the TradeLink objects a request may save: a new one, or one loaded from
\* a row (at any time before: it is as the row is, or still active)
TradeLinkObjects ==
    {TradeLink_init(l, c, p, g, utcnow(Len(trade_links) + 1)) :
        l \in TradeLinkIds, c \in CardIds, p \in Prices, g \in BOOLEAN}
    \cup {TradeLink_from_row(i) : i \in DOMAIN trade_links}
    \cup {[TradeLink_from_row(i) EXCEPT !.is_active = TRUE] :
            i \in DOMAIN trade_links}

\* the CollectionLink objects a request may save
CollectionLinkObjects ==
    {CollectionLink_init(l, k) :
        l \in CollectionLinkIds, k \in 1..MaxCollections}
    \cup {CollectionLink_from_row(i) : i \in DOMAIN collection_links}
    \cup {[CollectionLink_from_row(i) EXCEPT !.is_active = TRUE] :
            i \in DOMAIN collection_links}

\* Sellers list cards and collections and withdraw the listings
NextLinks ==
    \/ \E self \in TradeLinkObjects : TradeLink_save(self)
    \/ \E i \in DOMAIN trade_links : TradeLink_deactivate(i)
    \/ \E self \in CollectionLinkObjects : CollectionLink_save(self)
    \/ \E i \in DOMAIN collection_links : CollectionLink_deactivate(i)

SpecLinks == Init /\ [][NextLinks]_vars

\* ------------------------------------------------ Collection.update_price
\* the names the module config defines (config.py)
config ==
    {"os", "Path", "load_dotenv", "env_path", "BOT_TOKEN", "admin_ids_str",
     "ADMIN_IDS", "DATABASE_URL", "CARD_CREATION_PRICE", "ENGRAVING_COLORS",
     "FLASK_HOST", "FLASK_PORT", "API_BASE_URL", "SERVICE_DIR", "PID_DIR",
     "LOG_DIR"}

\* from config import name: the value the administrator has set for it, if
\* config defines the name, and ImportError otherwise
from_config_import(name, setting) ==
    IF name \in config
    THEN [raised |-> FALSE, value |-> setting]
    ELSE [raised |-> TRUE, value |-> FALSE]

\* Collection.get_cards: SELECT * FROM cards WHERE collection_id = ?
Collection_get_cards(k) == {c \in DOMAIN cards : cards[c].collection_id = k}

\* SELECT card_id, price FROM trade_links WHERE card_id IN (card_ids)
\* AND is_active = 1 AND is_gift = 0: the ids of the rows selected
active_sale_links(card_ids) ==
    {i \in DOMAIN trade_links :
        /\ trade_links[i].card_id \in card_ids
        /\ trade_links[i].is_active
        /\ ~trade_links[i].is_gift}

\* card_prices: the rows come ORDER BY created_at DESC and the first row of
\* a card sets its price
card_prices(card_ids) ==
    LET rows == active_sale_links(card_ids)
        first(c) == CHOOSE i \in rows :
            /\ trade_links[i].card_id = c
            /\ \A j \in rows : trade_links[j].card_id = c =>
                   trade_links[j].created_at <= trade_links[i].created_at
    IN  [c \in {trade_links[i].card_id : i \in rows} |->
            trade_links[first(c)].price]

\* sum(d.values())
RECURSIVE sum_values(_)
sum_values(d) ==
    IF DOMAIN d = {} THEN 0
    ELSE LET c == CHOOSE x \in DOMAIN d : TRUE
         IN  d[c] + sum_values([x \in DOMAIN d \ {c} |-> d[x]])

\* UPDATE collections SET star_price = ? WHERE id = ?
Collection_set_star_price(k, price) ==
    IF k \in DOMAIN collections
    THEN [collections EXCEPT ![k].star_price = price]
    ELSE collections

\* Collection.update_price() of the collection k when the administrator's
\* setting of the collection feature is `setting`: whether it raised, what
\* it returned, and the table collections after it.  (Past the import, the
\* method reads the cards, reads the links and writes the price in three
\* transactions.)
Collection_update_price_on(k, setting) ==
    LET ENABLE_COLLECTIONS == from_config_import("ENABLE_COLLECTIONS", setting)
        total_price == sum_values(card_prices(Collection_get_cards(k)))
    IN  IF ENABLE_COLLECTIONS.raised
        THEN [raised |-> TRUE, result |-> 0, collections |-> collections]
        ELSE IF ~ENABLE_COLLECTIONS.value
        THEN [raised |-> FALSE, result |-> 0,
              collections |-> Collection_set_star_price(k, 0)]
        ELSE IF Collection_get_cards(k) = {}
        THEN [raised |-> FALSE, result |-> 0,
              collections |-> Collection_set_star_price(k, 0)]
        ELSE [raised |-> FALSE, result |-> total_price,
              collections |-> Collection_set_star_price(k, total_price)]

\* Collection.get_by_id(k).update_price() is called, setting being what the
\* administrator wants of the collection feature at the time
Collection_update_price(k, setting) ==
    /\ Len(update_price_calls) < MaxPriceCalls
    /\ \E r \in {Collection_update_price_on(k, setting)} :
           /\ collections' = r.collections
           /\ update_price_calls' = Append(update_price_calls,
                    [collection |-> k, feature_enabled |-> setting,
                     raised |-> r.raised, result |-> r.result])
    /\ UNCHANGED <<cards, airdrops, airdrop_cards, claims, userVars,
                   handlerVars, genVars, schema,
                   indexes, schema_migrations, init_db_calls, trade_links,
                   collection_links>>

\* the link_ids generated for the collections created during set-up
SetupLinkIds == CHOOSE u \in uuid4_outcomes(EmptyDb, MaxCollections) : TRUE

\* The store when prices are computed: collections have been created, and
\* each card is in one of them or in none
InitPrice ==
    /\ cards \in [CardIds ->
            [owner_id : {Creator}, access_key : {NULL},
             collection_id : {None} \cup (1..MaxCollections)]]
    /\ airdrops = [a \in AirdropIds |-> [is_active |-> TRUE]]
    /\ airdrop_cards = <<>>
    /\ claims = <<>>
    /\ GenIdle
    /\ NoLinks
    /\ NoUsers
    /\ NoHandlers
    /\ \E db \in {init_db(EmptyDb, 1, <<>>).committed} :
           /\ schema = db.schema
           /\ indexes = db.indexes
           /\ schema_migrations = db.schema_migrations
    /\ collections = [k \in 1..MaxCollections |->
                        Collection_init(NULL, SetupLinkIds[k])]
    /\ init_db_calls = <<>>

\* Sellers list cards and withdraw listings; prices are recomputed
NextPrice ==
    \/ \E l \in TradeLinkIds, c \in CardIds, p \in Prices, g \in BOOLEAN :
           TradeLink_save(TradeLink_init(l, c, p, g, utcnow(Len(trade_links) + 1)))
    \/ \E i \in DOMAIN trade_links : TradeLink_deactivate(i)
    \/ \E k \in DOMAIN collections, setting \in BOOLEAN :
           Collection_update_price(k, setting)

SpecPrice == InitPrice /\ [][NextPrice]_vars

\* ---------------------------------------------------------------- users

\* the Telegram accounts that reach the bot
TelegramIds == {1, 2}

\* the username and first name Telegram reports for an account
Profiles == {<<"ann", "Ann">>, <<"bob", "Bob">>}

\* SELECT * FROM users WHERE telegram_id = ?: the ids of the matching rows
users_with_telegram_id(t) == {i \in DOMAIN users : users[i].telegram_id = t}

\* User.get_by_telegram_id: the object built from the row
User_from_row(i) ==
    [telegram_id |-> users[i].telegram_id, username |-> users[i].username,
     first_name |-> users[i].first_name, is_admin |-> users[i].is_admin,
     created_at |-> users[i].created_at, id |-> i]

\* the same column without the COALESCE (a fault)
self_created_at(self) == self.created_at

\* COALESCE((SELECT created_at FROM users WHERE telegram_id = ?), ?)
coalesce_created_at(self) ==
    IF users_with_telegram_id(self.telegram_id) # {}
    THEN users[CHOOSE i \in users_with_telegram_id(self.telegram_id) : TRUE]
             .created_at
    ELSE self.created_at

\* the id an AUTOINCREMENT column gives the next row
users_lastrowid == users_seq + 1

\* INSERT OR REPLACE INTO users (telegram_id, username, first_name, is_admin,
\* created_at): the row that holds the telegram_id (UNIQUE) is deleted and a
\* new row is inserted under a new id
User_insert_or_replace(self) ==
    [i \in (DOMAIN users \ users_with_telegram_id(self.telegram_id))
           \cup {users_lastrowid} |->
        IF i = users_lastrowid
        THEN [telegram_id |-> self.telegram_id, username |-> self.username,
              first_name |-> self.first_name, is_admin |-> self.is_admin,
              created_at |-> coalesce_created_at(self)]
        ELSE users[i]]

\* User.save()
User_save(self) ==
    /\ users_seq < MaxUserSaves
    /\ users' = User_insert_or_replace(self)
    /\ users_seq' = users_lastrowid
    /\ saved_user' =
           IF self.id = None THEN [self EXCEPT !.id = users_lastrowid] ELSE self
    /\ UNCHANGED <<cards, airdrops, airdrop_cards, claims, genVars, migVars,
                   linkVars, handlerVars>>

\* the time of a new object: no earlier than anything stored
datetime_utcnow ==
    {now \in 1..MaxTime : \A i \in DOMAIN users : users[i].created_at <= now}

\* the objects a handler saves: a new User(...), or the one
\* get_by_telegram_id returned, with the profile Telegram reports now
UserObjects ==
    {User_init(t, p[1], p[2], a, now) :
        t \in TelegramIds, p \in Profiles, a \in BOOLEAN, now \in datetime_utcnow}
    \cup {[User_from_row(i) EXCEPT !.username = p[1], !.first_name = p[2]] :
            i \in DOMAIN users, p \in Profiles}

NextUsers == \E self \in UserObjects : User_save(self)

SpecUsers == Init /\ [][NextUsers]_vars

\* ----------------------------------------------------------- card edits
\* A request that changes a card starts: Card.get_by_id(c) builds the object
\* from the row, in a transaction of its own
Card_load(c) ==
    /\ Len(card_edits) < MaxEdits
    /\ c \in DOMAIN cards
    /\ card_edits' =
           Append(card_edits, [card |-> Card_get_by_id(c), pc |-> "loaded"])
    /\ UNCHANGED <<cards, airdrops, airdrop_cards, claims, genVars, migVars,
                   linkVars, userVars, connections, airdrop_checks,
                   collection_checks>>

\* The request sets another access key on the object and calls card.save():
\* the object has an id, so the UPDATE writes every column from the object
Card_save_edited(e, key) ==
    /\ card_edits[e].pc = "loaded"
    /\ cards' = Card_update([card_edits[e].card EXCEPT !.access_key = key])
    /\ card_edits' = [card_edits EXCEPT ![e].pc = "saved"]
    /\ UNCHANGED <<airdrops, airdrop_cards, claims, genVars, migVars,
                   linkVars, userVars, connections, airdrop_checks,
                   collection_checks>>

\* Cards are edited while the pools are filled and claims are served
NextEdit ==
    \/ \E a \in AirdropIds, c \in DOMAIN cards : claims = <<>> /\ add_card(a, c)
    \/ \E a \in AirdropIds :
            Len(claims) < MaxClaims /\ get_random_available_card(NextUser, a)
    \/ \E k \in DOMAIN claims : reserve_card_get_card(k)
    \/ \E k \in DOMAIN claims : reserve_card_card_save(k)
    \/ \E k \in DOMAIN claims : reserve_card_save(k)
    \/ \E c \in CardIds : Card_load(c)
    \/ \E e \in DOMAIN card_edits, key \in Keys : Card_save_edited(e, key)

SpecEdit == Init /\ [][NextEdit]_vars

\* ---------------------------------------------------------- connections
\* the tables and the other variables no operation below writes
storeVars ==
    <<cards, airdrops, airdrop_cards, claims, genVars, migVars, linkVars,
      userVars, card_edits, airdrop_checks, collection_checks>>

\* sqlite3.connect(DB_PATH) for the operation `by`: the connection is open
sqlite3_connect(by) ==
    /\ Len(connections) < MaxConnections
    /\ connections' = Append(connections,
            [by |-> by, pc |-> "connected", closed |-> FALSE,
             response |-> "none"])
    /\ UNCHANGED storeVars

\* what cursor.execute of a SELECT on the columns of a table may do: return
\* rows, or raise sqlite3.OperationalError (the file is locked by a writer
\* of another process for longer than the timeout; always, when the table
\* or a column is missing)
execute_outcomes(table, columns) ==
    IF table \in DOMAIN schema /\ columns \subseteq schema[table]
    THEN {"rows", "sqlite3.OperationalError"}
    ELSE {"sqlite3.OperationalError"}

\* with get_db_cursor() as cursor: conn = get_db_connection(), and the body
\* of the with block starts
get_db_cursor_enter == sqlite3_connect("get_db_cursor")

\* the body of the with block ends: it returns (with rows, or with the
\* outcome "not found"), then conn.commit(); or it raises, then
\* conn.rollback() and raise; in each case finally: conn.close()
get_db_cursor_exit(i, outcome) ==
    /\ connections[i].by = "get_db_cursor"
    /\ connections[i].pc = "connected"
    /\ connections' = [connections EXCEPT
            ![i].pc = "returned",
            ![i].closed = TRUE,
            ![i].response = outcome]
    /\ UNCHANGED storeVars

\* the outcomes of the body of a with block
BodyOutcomes == {"rows", "not found", "raise"}

\* get_collections: conn = get_db_connection()
get_collections_connect == sqlite3_connect("get_collections")

\* get_collections, from cursor.execute on: the rows are fetched,
\* conn.close() is called and the list is returned; if execute raises,
\* except Exception returns the error with status 500
get_collections(i, outcome) ==
    /\ connections[i].by = "get_collections"
    /\ connections[i].pc = "connected"
    /\ connections' = [connections EXCEPT
            ![i].pc = "returned",
            ![i].closed = (outcome = "rows"),
            ![i].response = IF outcome = "rows" THEN "200" ELSE "500"]
    /\ UNCHANGED storeVars

\* get_card_by_access_key: conn = get_db_connection()
get_card_by_access_key_connect == sqlite3_connect("get_card_by_access_key")

\* SELECT ... FROM cards WHERE access_key = ?
cards_with_access_key(access_key) ==
    {c \in DOMAIN cards : cards[c].access_key = access_key}

\* get_card_by_access_key, from cursor.execute on: row = cursor.fetchone(),
\* conn.close(), then 404 without a row and the card otherwise; if execute
\* raises, except Exception returns the error with status 500
get_card_by_access_key(i, access_key, outcome) ==
    /\ connections[i].by = "get_card_by_access_key"
    /\ connections[i].pc = "connected"
    /\ connections' = [connections EXCEPT
            ![i].pc = "returned",
            ![i].closed = (outcome = "rows"),
            ![i].response =
                IF outcome # "rows" THEN "500"
                ELSE IF cards_with_access_key(access_key) = {} THEN "404"
                ELSE "200"]
    /\ UNCHANGED storeVars

\* the store when requests are served: some cards have an access key
InitConn ==
    /\ \E keys \in [CardIds -> Keys \cup {NULL}] :
          cards = [c \in CardIds |->
                      [owner_id |-> Creator, access_key |-> keys[c],
                       collection_id |-> None]]
    /\ airdrops = [a \in AirdropIds |-> [is_active |-> TRUE]]
    /\ airdrop_cards = <<>>
    /\ claims = <<>>
    /\ GenIdle
    /\ MigDone
    /\ NoLinks
    /\ NoUsers
    /\ NoHandlers

\* Requests are served concurrently: each opens a connection of its own
NextConn ==
    \/ get_db_cursor_enter
    \/ \E i \in DOMAIN connections, outcome \in BodyOutcomes :
            get_db_cursor_exit(i, outcome)
    \/ get_collections_connect
    \/ \E i \in DOMAIN connections :
       \E outcome \in execute_outcomes("collections",
                {"id", "name", "description", "star_price", "link_id",
                 "created_at"}) :
            get_collections(i, outcome)
    \/ get_card_by_access_key_connect
    \/ \E i \in DOMAIN connections, access_key \in Keys :
       \E outcome \in execute_outcomes("cards",
                {"id", "card_number", "name", "access_key",
                 "registration_date", "collection_id", "owner_id"}) :
            get_card_by_access_key(i, access_key, outcome)

SpecConn == InitConn /\ [][NextConn]_vars

\* -------------------------------------------------------- check_airdrop
\* the tables and the other variables check_airdrop leaves alone
checkedVars ==
    <<cards, airdrops, airdrop_cards, claims, genVars, migVars, linkVars,
      userVars, card_edits, connections, collection_checks>>

\* SELECT COUNT(*) FROM airdrop_cards WHERE airdrop_id = ? AND is_reserved = 1
claimed_cards(a) ==
    Cardinality({i \in PoolOf(a) : airdrop_cards[i].is_reserved})

\* Airdrop.get_total_cards
get_total_cards(a) == Cardinality(PoolOf(a))

\* Airdrop.get_available_cards
get_available_cards(a) == Cardinality(AvailableRows(a))

\* the request as it arrives, with nothing read yet
CheckAirdropRequest(telegram_id, airdrop_id) ==
    [telegram_id |-> telegram_id, airdrop_id |-> airdrop_id, pc |-> "user",
     message |-> "none", user_cards |-> {}, has_airdrop_card |-> FALSE,
     claimed_cards |-> 0, total_cards |-> 0, available_cards |-> 0]

\* POST /api/check-airdrop arrives: User.get_by_telegram_id(telegram_id),
\* and the answer "User not found" without a row
check_airdrop_get_user(telegram_id, airdrop_id) ==
    /\ Len(airdrop_checks) < MaxChecks
    /\ airdrop_checks' = Append(airdrop_checks,
            IF users_with_telegram_id(telegram_id) = {}
            THEN [CheckAirdropRequest(telegram_id, airdrop_id) EXCEPT
                     !.pc = "done", !.message = "User not found"]
            ELSE [CheckAirdropRequest(telegram_id, airdrop_id) EXCEPT
                     !.pc = "airdrop"])
    /\ UNCHANGED checkedVars

\* Airdrop.get_by_id(airdrop_id), and the answer "Airdrop not found"
check_airdrop_get_airdrop(r) ==
    /\ airdrop_checks[r].pc = "airdrop"
    /\ airdrop_checks' = [airdrop_checks EXCEPT
            ![r].pc = IF airdrop_checks[r].airdrop_id \in DOMAIN airdrops
                      THEN "user_cards" ELSE "done",
            ![r].message = IF airdrop_checks[r].airdrop_id \in DOMAIN airdrops
                           THEN "none" ELSE "Airdrop not found"]
    /\ UNCHANGED checkedVars

\* user_cards = user.get_cards()
check_airdrop_get_cards(r) ==
    /\ airdrop_checks[r].pc = "user_cards"
    /\ airdrop_checks' = [airdrop_checks EXCEPT
            ![r].pc = "airdrop_cards",
            ![r].user_cards = User_get_cards(airdrop_checks[r].telegram_id)]
    /\ UNCHANGED checkedVars

\* the cards of the airdrop are read, and the user's cards among them kept
check_airdrop_airdrop_cards(r) ==
    /\ airdrop_checks[r].pc = "airdrop_cards"
    /\ airdrop_checks' = [airdrop_checks EXCEPT
            ![r].pc = "claimed",
            ![r].user_cards =
                @ \cap airdrop_cards_of(airdrop_checks[r].airdrop_id),
            ![r].has_airdrop_card =
                (airdrop_checks[r].user_cards
                    \cap airdrop_cards_of(airdrop_checks[r].airdrop_id)) # {}]
    /\ UNCHANGED checkedVars

\* claimed_cards is counted
check_airdrop_claimed_cards(r) ==
    /\ airdrop_checks[r].pc = "claimed"
    /\ airdrop_checks' = [airdrop_checks EXCEPT
            ![r].pc = "total",
            ![r].claimed_cards = claimed_cards(airdrop_checks[r].airdrop_id)]
    /\ UNCHANGED checkedVars

\* "total_cards": airdrop.get_total_cards()
check_airdrop_total_cards(r) ==
    /\ airdrop_checks[r].pc = "total"
    /\ airdrop_checks' = [airdrop_checks EXCEPT
            ![r].pc = "available",
            ![r].total_cards = get_total_cards(airdrop_checks[r].airdrop_id)]
    /\ UNCHANGED checkedVars

\* "available_cards": airdrop.get_available_cards(), and the response
check_airdrop_available_cards(r) ==
    /\ airdrop_checks[r].pc = "available"
    /\ airdrop_checks' = [airdrop_checks EXCEPT
            ![r].pc = "done",
            ![r].message = "Found",
            ![r].available_cards =
                get_available_cards(airdrop_checks[r].airdrop_id)]
    /\ UNCHANGED checkedVars

\* the telegram ids of the requests: a stored user's and one of nobody
CheckedTelegramIds == {1, Creator + 1}

\* the airdrop ids of the requests: a stored airdrop's and one of no airdrop
CheckedAirdropIds == {1, Cardinality(AirdropIds) + 1}

\* the store when the requests are served: user 1 has been saved
InitCheck ==
    /\ InitStore
    /\ GenIdle
    /\ MigDone
    /\ NoLinks
    /\ NoHandlers
    /\ users = <<[telegram_id |-> 1, username |-> "ann", first_name |-> "Ann",
                  is_admin |-> FALSE, created_at |-> 1]>>
    /\ users_seq = 1
    /\ saved_user = [User_init(1, "ann", "Ann", FALSE, 1) EXCEPT !.id = 1]

\* check_airdrop is served while cards are added to the pools and claimed
NextCheck ==
    \/ \E a \in AirdropIds, c \in DOMAIN cards : add_card(a, c)
    \/ \E a \in AirdropIds :
            Len(claims) < MaxClaims /\ get_random_available_card(NextUser, a)
    \/ \E k \in DOMAIN claims : reserve_card_get_card(k)
    \/ \E k \in DOMAIN claims : reserve_card_card_save(k)
    \/ \E k \in DOMAIN claims : reserve_card_save(k)
    \/ \E t \in CheckedTelegramIds, a \in CheckedAirdropIds :
            check_airdrop_get_user(t, a)
    \/ \E r \in DOMAIN airdrop_checks : check_airdrop_get_airdrop(r)
    \/ \E r \in DOMAIN airdrop_checks : check_airdrop_get_cards(r)
    \/ \E r \in DOMAIN airdrop_checks : check_airdrop_airdrop_cards(r)
    \/ \E r \in DOMAIN airdrop_checks : check_airdrop_claimed_cards(r)
    \/ \E r \in DOMAIN airdrop_checks : check_airdrop_total_cards(r)
    \/ \E r \in DOMAIN airdrop_checks : check_airdrop_available_cards(r)

SpecCheck == InitCheck /\ [][NextCheck]_vars

\* ----------------------------------------------------- check_collection
\* the tables and the other variables check_collection leaves alone
collectionCheckedVars ==
    <<cards, airdrops, airdrop_cards, claims, genVars, migVars, linkVars,
      userVars, card_edits, connections, airdrop_checks>>

\* Collection.get_by_access_key: SELECT DISTINCT c.* FROM collections c
\* JOIN cards ca ON c.id = ca.collection_id WHERE ca.access_key = ?
collections_with_access_key(access_key) ==
    {k \in DOMAIN collections :
        \E c \in DOMAIN cards :
            cards[c].collection_id = k /\ cards[c].access_key = access_key}

\* the request as it arrives, with nothing read yet
CheckCollectionRequest(telegram_id, collection_access_key) ==
    [telegram_id |-> telegram_id,
     collection_access_key |-> collection_access_key,
     pc |-> "user", message |-> "none", user |-> NoUser,
     collection |-> None, cards |-> {}, has_collection_card |-> FALSE]

\* POST /api/check-collection arrives: User.get_by_telegram_id(telegram_id),
\* and the answer "User not found" without a row
check_collection_get_user(telegram_id, collection_access_key) ==
    /\ Len(collection_checks) < MaxCollectionChecks
    /\ LET req == CheckCollectionRequest(telegram_id, collection_access_key)
       IN  IF users_with_telegram_id(telegram_id) = {}
           THEN collection_checks' = Append(collection_checks,
                    [req EXCEPT !.pc = "done", !.message = "User not found"])
           ELSE \E i \in users_with_telegram_id(telegram_id) :
                    collection_checks' = Append(collection_checks,
                        [req EXCEPT !.pc = "collection",
                                    !.user = User_from_row(i)])
    /\ UNCHANGED collectionCheckedVars

\* Collection.get_by_access_key(collection_access_key): fetchone() of the
\* collections found, and the answer "Collection not found" without one
check_collection_get_collection(r) ==
    /\ collection_checks[r].pc = "collection"
    /\ LET found == collections_with_access_key(
                        collection_checks[r].collection_access_key)
       IN  IF found = {}
           THEN collection_checks' = [collection_checks EXCEPT
                    ![r].pc = "done", ![r].message = "Collection not found"]
           ELSE \E k \in found :
                    collection_checks' = [collection_checks EXCEPT
                        ![r].pc = "cards", ![r].collection = k]
    /\ UNCHANGED collectionCheckedVars

\* collection.get_cards(), the loop `if card.owner_id == user.id`, and the
\* response
check_collection_get_cards(r) ==
    /\ collection_checks[r].pc = "cards"
    /\ LET user_cards_in_collection ==
               {c \in Collection_get_cards(collection_checks[r].collection) :
                   cards[c].owner_id = collection_checks[r].user.id}
       IN  collection_checks' = [collection_checks EXCEPT
                ![r].pc = "done",
                ![r].message = "Found",
                ![r].cards = user_cards_in_collection,
                ![r].has_collection_card = user_cards_in_collection # {}]
    /\ UNCHANGED collectionCheckedVars

\* the telegram ids of the stored users and of the owners of cards
OwnerTelegramIds == {1, 2, 3}

\* the access key of a card of the set-up
KeyOfCard(c) == IF c = 1 THEN "AAAA-AAAA-AAAA" ELSE "Z9Z9-Z9Z9-Z9Z9"

\* The store when the requests are served: two users have been saved (the
\* ids are those of AUTOINCREMENT, the telegram ids are Telegram's), the
\* collections exist, and every card has an owner, an access key and
\* possibly a collection.
InitOwn ==
    /\ \E owners \in [CardIds -> OwnerTelegramIds] :
       \E of \in [CardIds -> {None} \cup (1..MaxCollections)] :
          cards = [c \in CardIds |->
                      [owner_id |-> owners[c], access_key |-> KeyOfCard(c),
                       collection_id |-> of[c]]]
    /\ airdrops = [a \in AirdropIds |-> [is_active |-> TRUE]]
    /\ airdrop_cards = <<>>
    /\ claims = <<>>
    /\ GenIdle
    /\ NoLinks
    /\ NoHandlers
    /\ \E db \in {init_db(EmptyDb, 1, <<>>).committed} :
           /\ schema = db.schema
           /\ indexes = db.indexes
           /\ schema_migrations = db.schema_migrations
    /\ collections = [k \in 1..MaxCollections |->
                        Collection_init(NULL, SetupLinkIds[k])]
    /\ init_db_calls = <<>>
    /\ \E t1, t2 \in OwnerTelegramIds :
          /\ t1 # t2
          /\ users = <<[telegram_id |-> t1, username |-> "ann",
                        first_name |-> "Ann", is_admin |-> FALSE,
                        created_at |-> 1],
                       [telegram_id |-> t2, username |-> "bob",
                        first_name |-> "Bob", is_admin |-> FALSE,
                        created_at |-> 1]>>
          /\ users_seq = 2
          /\ saved_user = [User_init(t2, "bob", "Bob", FALSE, 1) EXCEPT !.id = 2]

\* check_collection is served
NextOwn ==
    \/ \E t \in OwnerTelegramIds, key \in Keys : check_collection_get_user(t, key)
    \/ \E r \in DOMAIN collection_checks : check_collection_get_collection(r)
    \/ \E r \in DOMAIN collection_checks : check_collection_get_cards(r)

SpecOwn == InitOwn /\ [][NextOwn]_vars

\* ================================================================ claims
\* the claim requests against airdrop a
ClaimsOn(a) == {k \in DOMAIN claims : claims[k].airdrop_id = a}

\* the claim requests against airdrop a that returned a card
Winners(a) ==
    {k \in ClaimsOn(a) : claims[k].pc = "done" /\ claims[k].result = "Card"}

\* airdrop a has no unreserved pool row
NoUnreservedRow(a) ==
    \A i \in DOMAIN airdrop_cards :
        airdrop_cards[i].airdrop_id = a => airdrop_cards[i].is_reserved

\* a claim request starts in this step
ClaimStarts == Len(claims') = Len(claims) + 1

\* C1: when two claims by different claimants against an airdrop that had
\* exactly one unreserved row (its only row, which the claim that came first
\* selected) have both returned, exactly one returned the card, the other
\* returned NoCardsAvailable, and the card is owned by the one that got it.
C1_ExactlyOneClaimantWins ==
    \A a \in AirdropIds : \A j, k \in ClaimsOn(a) :
        ( /\ j < k
          /\ claims[j].user_id # claims[k].user_id
          /\ ClaimsOn(a) = {j, k}
          /\ Cardinality(PoolOf(a)) = 1
          /\ claims[j].self.id \in PoolOf(a)
          /\ claims[j].pc = "done" /\ claims[k].pc = "done" )
        => /\ Cardinality(Winners(a)) = 1
           /\ \A l \in ClaimsOn(a) \ Winners(a) :
                  claims[l].result = "NoCardsAvailable"
           /\ \A l \in Winners(a) :
                  cards[claims[l].card.id].owner_id = claims[l].user_id

\* C2: the claims against an airdrop that returned a card are never more
\* than the rows of its pool.
C2_AtMostNWinners ==
    \A a \in AirdropIds : Cardinality(Winners(a)) <= Cardinality(PoolOf(a))

\* C3: a reserved row stays reserved, and its reserved_by and reserved_at
\* are never written again.
C3_ReservationIsFinal ==
    [][\A i \in DOMAIN airdrop_cards :
          airdrop_cards[i].is_reserved =>
              /\ airdrop_cards'[i].is_reserved
              /\ airdrop_cards'[i].reserved_by = airdrop_cards[i].reserved_by
              /\ airdrop_cards'[i].reserved_at = airdrop_cards[i].reserved_at]_vars

\* C4: in every committed state, the card of a pool row is owned by
\* claimant u exactly when the row is reserved by u.
C4_ReserveAndTransferAtomic ==
    \A i \in DOMAIN airdrop_cards, u \in Users :
        (OwnerOfRow(i) = u)
            <=> (airdrop_cards[i].is_reserved /\ airdrop_cards[i].reserved_by = u)

\* C5: a claim abandoned before it completes (no other claim having run)
\* leaves its row unreserved and its card with the owner it had before.
C5_AbandonedClaimLeavesNoTrace ==
    \A k \in DOMAIN claims :
        (claims[k].pc = "abandoned" /\ Len(claims) = 1)
        => /\ ~airdrop_cards[claims[k].self.id].is_reserved
           /\ OwnerOfRow(claims[k].self.id) = claims[k].owner_before

\* C6: a claim that starts against an airdrop without an unreserved row
\* returns NoCardsAvailable at once, selects nothing and writes no row of
\* airdrop_cards and none of cards; a claim that starts against an airdrop
\* with unreserved rows selects a row of that airdrop that is unreserved at
\* the time.
C6_SelectionFrame ==
    [][ClaimStarts =>
          LET c == claims'[Len(claims')]
          IN  /\ NoUnreservedRow(c.airdrop_id) =>
                    /\ c.pc = "done"
                    /\ c.result = "NoCardsAvailable"
                    /\ c.self = NoAirdropCard
                    /\ airdrop_cards' = airdrop_cards
                    /\ cards' = cards
              /\ ~NoUnreservedRow(c.airdrop_id) =>
                    /\ c.pc = "selected"
                    /\ c.self.id \in DOMAIN airdrop_cards
                    /\ c.self = AirdropCard_from_row(c.self.id)
                    /\ airdrop_cards[c.self.id].airdrop_id = c.airdrop_id
                    /\ ~airdrop_cards[c.self.id].is_reserved]_vars

\* C6, its case: a claim got NoCardsAvailable from an airdrop whose pool is
\* not empty (every row reserved) while another airdrop has an unreserved row.
C6_Witness ==
    \E k \in DOMAIN claims :
        /\ claims[k].result = "NoCardsAvailable"
        /\ PoolOf(claims[k].airdrop_id) # {}
        /\ \E i \in DOMAIN airdrop_cards :
              /\ airdrop_cards[i].airdrop_id # claims[k].airdrop_id
              /\ ~airdrop_cards[i].is_reserved

\* C7: a claim that starts against a deactivated airdrop which still has
\* unreserved rows returns AirdropInactive at once and selects no row.
C7_InactiveAirdropRefusesClaim ==
    [][ClaimStarts =>
          LET c == claims'[Len(claims')]
          IN  (~airdrops[c.airdrop_id].is_active /\ ~NoUnreservedRow(c.airdrop_id))
              => /\ c.pc = "done"
                 /\ c.result = "AirdropInactive"
                 /\ c.self = NoAirdropCard]_vars

\* the pool of airdrop a is two rows of two different cards, both stored
TwoCardPool(a) ==
    /\ Cardinality(PoolOf(a)) = 2
    /\ \A i, j \in PoolOf(a) :
          i # j => airdrop_cards[i].card_id # airdrop_cards[j].card_id
    /\ \A i \in PoolOf(a) : airdrop_cards[i].card_id \in DOMAIN cards

\* three claims against airdrop a, one after another, have all returned
ThreeClaimsServed(a) ==
    /\ Len(claims) = 3
    /\ \A k \in DOMAIN claims :
          claims[k].airdrop_id = a /\ claims[k].pc = "done"

\* claim k was served the card of a row of airdrop a, which is now reserved
\* by its user and whose card its user owns
Served(k, a) ==
    /\ claims[k].result = "Card"
    /\ claims[k].self.id \in PoolOf(a)
    /\ claims[k].card.id = airdrop_cards[claims[k].self.id].card_id
    /\ airdrop_cards[claims[k].self.id].is_reserved
    /\ airdrop_cards[claims[k].self.id].reserved_by = claims[k].user_id
    /\ cards[claims[k].card.id].owner_id = claims[k].user_id

\* C8: with a pool of two different cards, three claims run one after
\* another give the first claimant one card, the second the other card, and
\* the third NoCardsAvailable.
C8_SequentialDrain ==
    \A a \in AirdropIds :
        (TwoCardPool(a) /\ ThreeClaimsServed(a))
        => /\ Served(1, a)
           /\ Served(2, a)
           /\ claims[1].card.id # claims[2].card.id
           /\ claims[1].user_id # claims[2].user_id
           /\ claims[3].result = "NoCardsAvailable"

\* C8, its case: the three claims have been served from a two-card pool
C8_Witness ==
    \E a \in AirdropIds :
        /\ TwoCardPool(a)
        /\ ThreeClaimsServed(a)
        /\ claims[2].result = "Card"
        /\ claims[3].result = "NoCardsAvailable"

\* C9: no two rows of airdrop_cards hold the same (airdrop_id, card_id).
C9_PoolPairUnique ==
    \A i, j \in DOMAIN airdrop_cards :
        ( /\ airdrop_cards[i].airdrop_id = airdrop_cards[j].airdrop_id
          /\ airdrop_cards[i].card_id = airdrop_cards[j].card_id )
        => i = j

\* C10: when a claim returns a card to user u from airdrop a, check_airdrop
\* answers has_airdrop_card = true and can_claim_more = false for (u, a); and
\* can_claim_more is true only for an active airdrop none of whose cards the
\* user owns.
C10_ClaimedMeansNotEligible ==
    [][\A k \in DOMAIN claims :
          (claims[k].pc # "done" /\ claims'[k].pc = "done"
              /\ claims'[k].result = "Card")
          => /\ has_airdrop_card(claims[k].user_id, claims[k].airdrop_id)'
             /\ ~can_claim_more(claims[k].user_id, claims[k].airdrop_id)'
             /\ \A u \in Users, a \in AirdropIds :
                   can_claim_more(u, a)' =>
                       /\ airdrops'[a].is_active
                       /\ \A i \in PoolOf(a)' : OwnerOfRow(i)' # u]_vars

\* C11: no two rows of cards hold the same non-null access_key; two cards
\* created by concurrent requests that were handed the same generated key
\* end up stored with different keys.
C11_AccessKeyUnique ==
    \A c, d \in DOMAIN cards :
        (cards[c].access_key # NULL /\ cards[c].access_key = cards[d].access_key)
        => c = d

\* the characters [A-Z0-9]
UpperOrDigit ==
    {"A", "B", "C", "D", "E", "F", "G", "H", "I", "J", "K", "L", "M", "N",
     "O", "P", "Q", "R", "S", "T", "U", "V", "W", "X", "Y", "Z",
     "0", "1", "2", "3", "4", "5", "6", "7", "8", "9"}

\* C12: every key generate_access_key() returns has 14 characters, '-' at
\* positions 5 and 10 and a character of [A-Z0-9] at every other position.
C12_KeyFormat ==
    \A n \in DOMAIN generated :
        /\ Len(generated[n]) = 14
        /\ \A i \in 1..14 :
              IF i \in {5, 10}
              THEN generated[n][i] = "-"
              ELSE generated[n][i] \in UpperOrDigit

\* C12, its case: a key was returned whose draws were letters and digits
C12_Witness ==
    \E n \in DOMAIN generated :
        /\ generated[n][1] = "A"
        /\ generated[n][4] = "9"
        /\ generated[n][6] = "Z"
        /\ generated[n][14] = "9"

\* init_db() returns, or raises, in this step
InitDbReturns == Len(init_db_calls') = Len(init_db_calls) + 1

\* the call of init_db() that has just ended
LastCall == init_db_calls[Len(init_db_calls)]

\* C13: init_db() on a file whose latest version is 1.7.0 runs no step and
\* leaves the tables, the columns, the indexes, the rows of collections and
\* the rows of schema_migrations (version and applied_at) as they were.
C13_InitDbNoOpWhenCurrent ==
    [][(InitDbReturns /\ current_version(Db) = Version("1", "7", "0"))
          => /\ LastCall'.steps = <<>>
             /\ ~LastCall'.raised
             /\ schema' = schema
             /\ indexes' = indexes
             /\ collections' = collections
             /\ schema_migrations' = schema_migrations]_vars

\* the tables with their columns, and the indexes, that init_db() leaves on
\* a file that did not exist
FreshSchema == init_db(EmptyDb, 1, <<>>).committed.schema

FreshIndexes == init_db(EmptyDb, 1, <<>>).committed.indexes

\* C14: the first init_db() of a process start, whatever file it finds (no
\* file, the file of a release at 1.0.0 .. 1.6.0, a file a killed start
\* left), returns without raising and leaves the tables, columns and
\* indexes of a fresh file and 1.7.0 as the latest version.
C14_MigrationConverges ==
    [][(InitDbReturns /\ init_db_calls = <<>>)
          => /\ ~LastCall'.raised
             /\ schema' = FreshSchema
             /\ indexes' = FreshIndexes
             /\ current_version(Db)' = Version("1", "7", "0")]_vars

\* a call of init_db() has returned without raising
InitDbCompleted == \E c \in DOMAIN init_db_calls : ~init_db_calls[c].raised

\* a call of init_db() has run the step 1.4.0
Step140Ran ==
    \E c \in DOMAIN init_db_calls :
        \E n \in DOMAIN init_db_calls[c].steps :
            init_db_calls[c].steps[n] = Version("1", "4", "0")

\* C15: once init_db() has completed, or has run its step 1.4.0, every row
\* of collections has a link_id that is neither NULL nor empty, and no two
\* rows have the same link_id.
C15_LinkIdNeverNull ==
    (InitDbCompleted \/ Step140Ran)
    => /\ \A i \in DOMAIN collections :
             collections[i].link_id # NULL /\ collections[i].link_id # ""
       /\ \A i, j \in DOMAIN collections :
             collections[i].link_id = collections[j].link_id => i = j

\* C19: the is_active of a row of trade_links or of collection_links, once
\* false, stays false whatever is saved, deactivated or looked up, and the
\* row stays.
C19_LinksNeverReactivated ==
    [][/\ \A i \in DOMAIN trade_links :
              ~trade_links[i].is_active =>
                  (i \in DOMAIN trade_links' /\ ~trade_links'[i].is_active)
       /\ \A i \in DOMAIN collection_links :
              ~collection_links[i].is_active =>
                  (i \in DOMAIN collection_links'
                      /\ ~collection_links'[i].is_active)]_vars

\* C19, its case: a listing of each kind was deactivated, and then another
\* listing was saved
C19_Witness ==
    /\ Len(trade_links) = 2
    /\ ~trade_links[1].is_active
    /\ trade_links[2].is_active
    /\ trade_links[2].card_id = trade_links[1].card_id
    /\ Len(collection_links) = 2
    /\ ~collection_links[1].is_active
    /\ collection_links[2].is_active

\* Collection.update_price() returns, or raises, in this step
UpdatePriceReturns == Len(update_price_calls') = Len(update_price_calls) + 1

\* the call of update_price() that has just ended
LastPriceCall == update_price_calls[Len(update_price_calls)]

\* the price of the most recently created trade link of card c that is
\* active and not a gift, 0 when the card has none
LatestActivePrice(c) ==
    LET links == {i \in DOMAIN trade_links :
                    /\ trade_links[i].card_id = c
                    /\ trade_links[i].is_active
                    /\ ~trade_links[i].is_gift}
    IN  IF links = {} THEN 0
        ELSE trade_links[CHOOSE i \in links : \A j \in links :
                trade_links[j].created_at <= trade_links[i].created_at].price

\* the sum of LatestActivePrice over the cards of S
RECURSIVE SumOfLatest(_)
SumOfLatest(S) ==
    IF S = {} THEN 0
    ELSE LET c == CHOOSE x \in S : TRUE
         IN  LatestActivePrice(c) + SumOfLatest(S \ {c})

\* the price the collection k is specified to have
ExpectedPrice(k) ==
    SumOfLatest({c \in DOMAIN cards : cards[c].collection_id = k})

\* C16: with the collection feature enabled, update_price() returns, and
\* stores as star_price of the collection, the sum over its cards of the
\* price of the card's most recent active non-gift trade link (0 for a card
\* without one).
C16_PriceIsSumOfLatestActive ==
    [][(UpdatePriceReturns /\ LastPriceCall'.feature_enabled)
          => /\ ~LastPriceCall'.raised
             /\ LastPriceCall'.result = ExpectedPrice(LastPriceCall'.collection)
             /\ collections'[LastPriceCall'.collection].star_price
                    = ExpectedPrice(LastPriceCall'.collection)]_vars

\* C17: with the collection feature disabled, update_price() returns 0 and
\* stores star_price = 0 for its collection, and the other collections
\* keep their price.
C17_DisabledPriceIsZero ==
    [][(UpdatePriceReturns /\ ~LastPriceCall'.feature_enabled)
          => /\ ~LastPriceCall'.raised
             /\ LastPriceCall'.result = 0
             /\ collections'[LastPriceCall'.collection].star_price = 0
             /\ \A k \in DOMAIN collections :
                    k # LastPriceCall'.collection
                        => collections'[k] = collections[k]]_vars

\* C18: two calls of update_price() on the same collection, with no change
\* of cards, trade links or setting between them, both return a price, the
\* same one, and it is the stored star_price after each.
C18_UpdatePriceIdempotent ==
    \A m, n \in DOMAIN update_price_calls :
        ( /\ m < n
          /\ update_price_calls[m].collection = update_price_calls[n].collection
          /\ update_price_calls[m].feature_enabled
                = update_price_calls[n].feature_enabled )
        => /\ ~update_price_calls[m].raised
           /\ ~update_price_calls[n].raised
           /\ update_price_calls[m].result = update_price_calls[n].result
           /\ collections[update_price_calls[n].collection].star_price
                  = update_price_calls[n].result

\* the rows of a users table that hold a telegram_id
StoredRows(table, t) == {i \in DOMAIN table : table[i].telegram_id = t}

\* the username, first_name and is_admin of a row or of an object
ProfileOf(r) == <<r.username, r.first_name, r.is_admin>>

\* a step of User.save(): every save takes a new id from the sequence
UserSaveReturns == users_seq' # users_seq

\* C20: User.save is an idempotent upsert keyed by telegram_id: after any
\* sequence of saves there is exactly one users row per saved telegram_id (the
\* one just saved, and every one saved before it); the row holds the
\* username, first_name and is_admin that were saved, so that saving the
\* profile that is stored already changes none of them; and its created_at
\* is the one stored before the save, that of the object only when the
\* telegram_id had no row: the created_at of the first save.
C20_SaveIsIdempotentUpsert ==
    [][UserSaveReturns =>
        /\ \A t \in TelegramIds :
              /\ Cardinality(StoredRows(users', t)) <= 1
              /\ (StoredRows(users, t) # {} \/ t = saved_user'.telegram_id)
                 => Cardinality(StoredRows(users', t)) = 1
        /\ \A i \in StoredRows(users', saved_user'.telegram_id) :
              /\ ProfileOf(users'[i]) = ProfileOf(saved_user')
              /\ \A j \in StoredRows(users, saved_user'.telegram_id) :
                    /\ users'[i].created_at = users[j].created_at
                    /\ ProfileOf(users[j]) = ProfileOf(saved_user')
                       => ProfileOf(users'[i]) = ProfileOf(users[j])
              /\ StoredRows(users, saved_user'.telegram_id) = {}
                 => users'[i].created_at = saved_user'.created_at
        /\ \A t \in TelegramIds \ {saved_user'.telegram_id} :
              \A i \in StoredRows(users, t) : i \in DOMAIN users'
                                              /\ users'[i] = users[i]]_vars

\* a telegram_id was saved a second time by a later object with the profile
\* already stored: the row keeps the created_at of the first save
C20_Witness ==
    \E i \in DOMAIN users :
        /\ users[i].telegram_id = saved_user.telegram_id
        /\ ProfileOf(users[i]) = ProfileOf(saved_user)
        /\ users[i].created_at < saved_user.created_at
        /\ i > 1

\* a step of reserve_card that commits card.save(): the ownership transfer
OwnershipTransfer ==
    \E k \in DOMAIN claims :
        claims[k].pc = "loaded" /\ claims'[k].pc = "card_saved"

\* C21: the stored owner_id of a card changes only in an ownership
\* transfer; a Card.save that edits the card leaves it as stored, also when
\* the object was loaded before a claim transferred the card.
C21_OwnerChangesOnlyByTransfer ==
    [][(\E c \in DOMAIN cards :
            cards'[c].owner_id # cards[c].owner_id) => OwnershipTransfer]_vars

\* the versions of the steps that are greater than the version v, in
\* increasing order
PendingVersions(v) ==
    LET pending == SelectSeq(MigrationSteps,
                             LAMBDA step : str_lt(v, step.version))
    IN  [n \in DOMAIN pending |-> pending[n].version]

\* C22: every call of init_db() executes exactly the steps whose version is
\* greater than the latest version recorded in the file, in increasing
\* order of version: no later step before an earlier pending one, no step
\* at or below the recorded version, and no pending step left out.
C22_ExactlyPendingStepsInOrder ==
    \A c \in DOMAIN init_db_calls :
        init_db_calls[c].steps = PendingVersions(init_db_calls[c].version)

\* the file holds the marker 1.7.0
Marker170(migrations) == Version("1", "7", "0") \in DOMAIN migrations

\* C23: init_db() stores the marker 1.7.0 only after every pending step
\* has completed: a call that stores it has run every pending step and has
\* not raised; a call in which a step raises stores no marker (the rows of
\* schema_migrations stay as they were, without 1.7.0), and the call of
\* init_db() after it starts from the version recorded before.
C23_MarkerOnlyAfterAllSteps ==
    [][InitDbReturns =>
        /\ LastCall'.raised =>
              /\ schema_migrations' = schema_migrations
              /\ ~Marker170(schema_migrations')
        /\ (Marker170(schema_migrations') /\ ~Marker170(schema_migrations)) =>
              /\ ~LastCall'.raised
              /\ LastCall'.steps = PendingVersions(LastCall'.version)
        /\ (init_db_calls # <<>> /\ LastCall.raised) =>
              LastCall'.version = LastCall.version]_vars

\* a call of init_db() raised in a step, and the next call has run
C23_Witness ==
    \E c \in DOMAIN init_db_calls :
        /\ init_db_calls[c].raised
        /\ init_db_calls[c].steps # <<>>
        /\ c + 1 \in DOMAIN init_db_calls

\* C24: a connection whose operation has returned (with a result, with a
\* not-found or business outcome, or after an exception) is closed; this
\* holds for the with get_db_cursor() blocks and for the handlers
\* get_collections and get_card_by_access_key.
C24_ConnectionsClosed ==
    \A i \in DOMAIN connections :
        connections[i].pc = "returned" => connections[i].closed

\* C25: User.save() keeps the id of the row of a stored telegram_id (the
\* row of every telegram_id has after the save the id it had before), and
\* the id of the object save() returns is the id of the stored row, for a
\* new object and for one loaded with get_by_telegram_id.
C25_SavePreservesId ==
    [][UserSaveReturns =>
        /\ \A t \in TelegramIds :
              StoredRows(users, t) \subseteq StoredRows(users', t)
        /\ saved_user'.id \in StoredRows(users', saved_user'.telegram_id)]_vars

\* C26: when reserve_card returns and leaves its row of airdrop_cards with
\* is_reserved = true, the card of the row exists, its stored owner is the
\* row's reserved_by, and reserve_card returned the card; a row whose card
\* was deleted before the claim is not left reserved.
C26_ReservedRowHasTransferredCard ==
    [][\A k \in DOMAIN claims :
          (/\ claims[k].pc = "card_saved"
           /\ claims'[k].pc = "done"
           /\ claims[k].self.id \in DOMAIN airdrop_cards'
           /\ airdrop_cards'[claims[k].self.id].is_reserved)
          => LET row == airdrop_cards'[claims[k].self.id]
             IN  /\ claims'[k].result = "Card"
                 /\ claims'[k].card.id = row.card_id
                 /\ row.card_id \in DOMAIN cards'
                 /\ cards'[row.card_id].owner_id = row.reserved_by]_vars

\* C27: in every response of check_airdrop that reports an airdrop,
\* claimed_cards + available_cards = total_cards, also when claims or
\* add_card commit while the request is served.
C27_CheckAirdropCountsConsistent ==
    \A r \in DOMAIN airdrop_checks :
        (airdrop_checks[r].pc = "done" /\ airdrop_checks[r].message = "Found")
        => airdrop_checks[r].claimed_cards + airdrop_checks[r].available_cards
               = airdrop_checks[r].total_cards

\* C28: check_collection answers has_collection_card = true exactly when
\* some card of the collection is among the user's cards as User.get_cards
\* selects them (cards.owner_id = the user's telegram_id), whatever ids and
\* telegram ids the users have.
C28_OwnershipByOneIdentity ==
    \A r \in DOMAIN collection_checks :
        (collection_checks[r].pc = "done"
            /\ collection_checks[r].message = "Found")
        => (collection_checks[r].has_collection_card
            <=> \E c \in Collection_get_cards(collection_checks[r].collection) :
                    c \in User_get_cards(collection_checks[r].telegram_id))

====
